---- MODULE Spec2Model ----
(***************************************************************************)
(* Model of src/preprocess.py: the Subset and Dataset classes.             *)
(*                                                                         *)
(* A numpy array is a record [shape, data]: its shape tuple and its        *)
(* elements in row-major (C) order.  A Python call that may raise is a     *)
(* record whose field err names the exception ("none" when it returns).    *)
(***************************************************************************)
EXTENDS Integers, Sequences, FiniteSets

VARIABLES
    pc,              \* the Dataset: "start" (none yet), "ready" (built by
                     \* __init__), "failed" (__init__ raised), "from_dict"
    attrs,           \* the names of the attributes the Dataset instance has
    archive,         \* what loadmat returned: train, test, mapping
    label_order,     \* the label_order argument ("None" is None)
    _encoder, _decoder, _train, _sampled_train, _train_size,
    _test, _sampled_test, _test_size, _mapping,     \* the fields of the Dataset
    ret,             \* what the last Dataset call returned, or the exception
    spc,             \* Subset.__init__: "start" (not called), "built", "dict"
    args,            \* the arguments X, y, feature_shape, encoder of Subset(...)
    subset,          \* the Subset constructed from args, or the exception
    result,          \* what the last call on subset returned, or the exception
    op,              \* the method called last
    size             \* the size argument of the last sampling call

vars == <<pc, attrs, archive, label_order, _encoder, _decoder, _train, _sampled_train,
          _train_size, _test, _sampled_test, _test_size, _mapping, ret,
          spc, args, subset, result, op, size>>

datasetVars == <<pc, attrs, archive, label_order, _encoder, _decoder, _train,
                 _sampled_train, _train_size, _test, _sampled_test, _test_size,
                 _mapping, ret>>

subsetVars == <<spc, args, subset, result>>

(***************************************************************************)
(* Bounds of the model.                                                    *)
(***************************************************************************)
\* Largest number of rows of a feature matrix or of a label vector.
MaxRows == 2

\* Largest number of rows of the testing split of an archive.
MaxTestRows == 1

\* Fractional sizes are the floats num / FracDen.
FracDen == 2

\* Raw label values, per-sample feature dimensions, label-column widths.
LabelValues == {3, 5}

FeatureDims == {1, 2}

LabelColumns == {1, 2}

\* The feature_shape arguments tried: entries are -1 (inferred) or a size.
FeatureShapes ==
    {<<-1>>, <<1>>, <<2>>, <<1, 2>>, <<2, 1>>, <<-1, 2>>, <<-1, -1>>}

MappingTables == {"mapping"}

(***************************************************************************)
(* numpy arrays                                                            *)
(***************************************************************************)
RECURSIVE Prod(_)
Prod(s) == IF s = <<>> THEN 1 ELSE Head(s) * Prod(Tail(s))

Array(shape, data) == [shape |-> shape, data |-> data]

NoArray == Array(<<0>>, <<>>)

\* len(a): the size of the first axis.
PyLen(a) == a.shape[1]

\* Number of elements of one row a[i].
RowSize(a) == Prod(Tail(a.shape))

\* a[i] for a 0-based row index i, as the flat sequence of its elements.
Row(a, i) == SubSeq(a.data, i * RowSize(a) + 1, (i + 1) * RowSize(a))

RECURSIVE Gather(_, _)
Gather(a, index) ==
    IF index = <<>> THEN <<>> ELSE Row(a, Head(index)) \o Gather(a, Tail(index))

\* a[index] for a 1-D integer index array: the rows of a at those indices.
Take(a, index) == Array(<<Len(index)>> \o Tail(a.shape), Gather(a, index))

\* a.flatten()
Flatten(a) == Array(<<Len(a.data)>>, a.data)

Unknowns(shape) == {i \in DOMAIN shape : shape[i] = -1}

Known(shape) == Prod([i \in DOMAIN shape |-> IF shape[i] = -1 THEN 1 ELSE shape[i]])

\* np.reshape(a, newshape): the data is kept, the shape changes; one -1 entry is
\* inferred from the element count, which fails when the other entries multiply
\* to 0 or do not divide the count.
Reshape(a, newshape) ==
    LET n == Len(a.data)
        k == Known(newshape)
    IN  IF Cardinality(Unknowns(newshape)) > 1
        THEN [err |-> "ValueError", val |-> NoArray]
        ELSE IF Unknowns(newshape) = {}
        THEN IF k = n
             THEN [err |-> "none", val |-> Array(newshape, a.data)]
             ELSE [err |-> "ValueError", val |-> NoArray]
        ELSE IF k = 0 \/ n % k # 0
             THEN [err |-> "ValueError", val |-> NoArray]
             ELSE [err |-> "none",
                   val |-> Array([i \in DOMAIN newshape |->
                                    IF newshape[i] = -1 THEN n \div k ELSE newshape[i]],
                                 a.data)]

(***************************************************************************)
(* Encoders: None, a fitted LabelEncoder, or one of the two lambdas of     *)
(* Dataset.__init__.                                                       *)
(***************************************************************************)
NoEncoder == [kind |-> "None", lower_bound |-> 0, classes |-> <<>>]

RECURSIVE SortedSeq(_)
SortedSeq(S) ==
    IF S = {} THEN <<>>
    ELSE LET m == CHOOSE x \in S : \A z \in S : x <= z
         IN  <<m>> \o SortedSeq(S \ {m})

Values(a) == {a.data[i] : i \in DOMAIN a.data}

\* LabelEncoder().fit(y): classes_ are the sorted distinct labels.
LabelEncoderFit(y) ==
    [kind |-> "LabelEncoder", lower_bound |-> 0, classes |-> SortedSeq(Values(y))]

\* lambda old: old - lower_bound
ShiftEncoder(lower_bound) ==
    [kind |-> "lambda_old_minus", lower_bound |-> lower_bound, classes |-> <<>>]

ShiftDecoderMinus(lower_bound) ==
    [kind |-> "lambda_old_minus", lower_bound |-> lower_bound, classes |-> <<>>]

\* lambda new: new + lower_bound
ShiftDecoder(lower_bound) ==
    [kind |-> "lambda_new_plus", lower_bound |-> lower_bound, classes |-> <<>>]

\* 0-based position of label v in the sorted classes.
ClassIndex(classes, v) == (CHOOSE i \in DOMAIN classes : classes[i] = v) - 1

\* LabelEncoder.transform(y): fails on a label that was not fitted.
Transform(encoder, y) ==
    IF \E i \in DOMAIN y.data : \A j \in DOMAIN encoder.classes :
            encoder.classes[j] # y.data[i]
    THEN [err |-> "ValueError", val |-> NoArray]
    ELSE [err |-> "none",
          val |-> Array(y.shape,
                        [i \in DOMAIN y.data |-> ClassIndex(encoder.classes, y.data[i])])]

\* Calling one of the lambdas on an array (elementwise).
CallLambda(f, y) ==
    Array(y.shape,
          [i \in DOMAIN y.data |->
              IF f.kind = "lambda_old_minus"
              THEN y.data[i] - f.lower_bound
              ELSE y.data[i] + f.lower_bound])

\* How Subset.__init__ applies an encoder object to the labels.
ApplyEncoder(encoder, y) ==
    IF encoder.kind = "LabelEncoder" THEN Transform(encoder, y)
    ELSE IF encoder.kind \in {"lambda_old_minus", "lambda_new_plus"}
    THEN [err |-> "none", val |-> CallLambda(encoder, y)]
    ELSE [err |-> "none", val |-> y]

(***************************************************************************)
(* Subset                                                                  *)
(***************************************************************************)
Raised(e) == [err |-> e, X |-> NoArray, y |-> NoArray]

NoSubset == Raised("unset")

\* The labels as Subset.__init__ holds them before encoding.
FlatLabels(y) == IF Len(y.shape) = 2 THEN Flatten(y) ELSE y

SubsetInitAssertBeforeFlatten(X, y, feature_shape, encoder) ==
    LET r == Reshape(X, <<PyLen(X)>> \o feature_shape)
        e == ApplyEncoder(encoder, FlatLabels(y))
    IN  IF r.err # "none" THEN Raised(r.err)
        ELSE IF e.err # "none" THEN Raised(e.err)
        ELSE IF PyLen(r.val) # PyLen(y) THEN Raised("AssertionError")
        ELSE [err |-> "none", X |-> r.val, y |-> e.val]

\* Subset(X, y, feature_shape, encoder)
SubsetInit(X, y, feature_shape, encoder) ==
    LET r == Reshape(X, <<PyLen(X)>> \o feature_shape)
        e == ApplyEncoder(encoder, FlatLabels(y))
    IN  IF r.err # "none" THEN Raised(r.err)
        ELSE IF e.err # "none" THEN Raised(e.err)
        ELSE IF PyLen(r.val) # PyLen(e.val) THEN Raised("AssertionError")
        ELSE [err |-> "none", X |-> r.val, y |-> e.val]

\* Subset.__dict__()
ToDict(self) == [X |-> self.X, y |-> self.y]

\* Subset.from_dict(d)
from_dict(d) == SubsetInit(d.X, d.y, <<-1>>, NoEncoder)

Min(a, b) == IF a < b THEN a ELSE b

\* Subset.__len__()
SubsetLen(self) == Min(PyLen(self.X), PyLen(self.y))

IntSize(k) == [kind |-> "int", num |-> k, den |-> 1]

\* The float k / FracDen, held as an exact fraction: at the sizes and lengths
\* tried, total * size in floating point truncates to the same integer.
FloatSize(k) == [kind |-> "float", num |-> k, den |-> FracDen]

\* The size arguments tried: counts 0 .. MaxRows + 1, fractions 0 .. (FracDen + 1) / FracDen.
Sizes ==
    {IntSize(k) : k \in 0 .. MaxRows + 1} \cup {FloatSize(k) : k \in 0 .. FracDen + 1}

\* The number of rows sampled() draws: min(total, size), or
\* int(total * min(size, 1.0)) for a non-negative float size.
SampleCount(total, sz) ==
    IF sz.kind = "int" THEN Min(total, sz.num)
    ELSE (total * Min(sz.num, sz.den)) \div sz.den

\* np.random.choice(np.arange(total), sample, replace=False): every sequence of
\* `sample` pairwise distinct indices below total.
IndexArrays(total, sample) ==
    IF sample < 0 \/ sample > total THEN {}
    ELSE {ix \in [1 .. sample -> 0 .. total - 1] :
             \A i, j \in 1 .. sample : i # j => ix[i] # ix[j]}

\* Subset.sampled(size): the set of results the random choice can give.
sampled(self, sz) ==
    LET total == SubsetLen(self)
        sample == SampleCount(total, sz)
        choices == IndexArrays(total, sample)
    IN  IF choices = {} THEN {Raised("ValueError")}
        ELSE {SubsetInit(Take(self.X, index), Take(self.y, index), <<-1>>, NoEncoder) :
                 index \in choices}

(***************************************************************************)
(* Inputs                                                                  *)
(***************************************************************************)
\* A feature matrix of n rows and d columns whose cells are all different.
Features(n, d, base) == Array(<<n, d>>, [i \in 1 .. n * d |-> base + i])

\* Label arrays of m rows: 1-D, or 2-D with k columns.
LabelArrays(m) ==
    {Array(<<m>>, data) : data \in [1 .. m -> LabelValues]}
    \cup UNION {{Array(<<m, k>>, data) : data \in [1 .. m * k -> LabelValues]} :
                   k \in LabelColumns}

MinLabel == CHOOSE x \in LabelValues : \A z \in LabelValues : x <= z

Encoders ==
    {NoEncoder, ShiftEncoder(MinLabel)}
    \cup {LabelEncoderFit(Array(<<Cardinality(S)>>, SortedSeq(S))) :
             S \in SUBSET LabelValues \ {{}}}

\* The arguments of Subset(...) tried: a feature matrix of at least one row, and
\* a label array of any length up to MaxRows (the empty one included).
SubsetArgs ==
    [X : {Features(n, d, 0) : n \in 1 .. MaxRows, d \in FeatureDims},
     y : UNION {LabelArrays(m) : m \in 0 .. MaxRows},
     feature_shape : FeatureShapes,
     encoder : Encoders]

NoSize == IntSize(0)

NoArchive == [train |-> [X |-> NoArray, y |-> NoArray],
              test |-> [X |-> NoArray, y |-> NoArray],
              mapping |-> "unset"]

DatasetUnset ==
    /\ attrs = {}
    /\ archive = NoArchive
    /\ label_order = "None"
    /\ _encoder = NoEncoder
    /\ _decoder = NoEncoder
    /\ _train = NoSubset
    /\ _sampled_train = NoSubset
    /\ _train_size = 0
    /\ _test = NoSubset
    /\ _sampled_test = NoSubset
    /\ _test_size = 0
    /\ _mapping = "unset"
    /\ ret = "unset"

SubsetUnset ==
    /\ args = [X |-> NoArray, y |-> NoArray, feature_shape |-> <<-1>>,
               encoder |-> NoEncoder]
    /\ subset = NoSubset
    /\ result = NoSubset
    /\ op = "none"
    /\ size = NoSize

(***************************************************************************)
(* The Subset class on its own: construction, the dict round trip and      *)
(* sampling, from every input of SubsetArgs.                               *)
(***************************************************************************)
SubsetSpecInit ==
    /\ pc = "unused"
    /\ DatasetUnset
    /\ spc = "start"
    /\ args \in SubsetArgs
    /\ subset = NoSubset
    /\ result = NoSubset
    /\ op = "none"
    /\ size = NoSize

\* s = Subset(X, y, feature_shape, encoder)
NewSubset ==
    /\ spc = "start"
    /\ subset' = SubsetInit(args.X, args.y, args.feature_shape, args.encoder)
    /\ spc' = "built"
    /\ op' = "Subset"
    /\ UNCHANGED <<args, result, size>>
    /\ UNCHANGED datasetVars

\* Subset.from_dict({"X": X, "y": y}) on the raw arrays.
FromDict ==
    /\ spc = "start"
    /\ result' = from_dict([X |-> args.X, y |-> args.y])
    /\ spc' = "dict"
    /\ op' = "from_dict"
    /\ UNCHANGED <<args, subset, size>>
    /\ UNCHANGED datasetVars

\* Subset.from_dict(s.__dict__())
DictRoundTrip ==
    /\ spc = "built"
    /\ subset.err = "none"
    /\ result' = from_dict(ToDict(subset))
    /\ op' = "from_dict_of_dict"
    /\ UNCHANGED <<spc, args, subset, size>>
    /\ UNCHANGED datasetVars

\* s.sampled(size)
Sample(sz) ==
    /\ spc = "built"
    /\ subset.err = "none"
    /\ \E r \in sampled(subset, sz) : result' = r
    /\ size' = sz
    /\ op' = "sampled"
    /\ UNCHANGED <<spc, args, subset>>
    /\ UNCHANGED datasetVars

SubsetNext ==
    \/ NewSubset
    \/ FromDict
    \/ DictRoundTrip
    \/ \E sz \in Sizes : Sample(sz)

SubsetSpec == SubsetSpecInit /\ [][SubsetNext]_vars

(***************************************************************************)
(* Dataset                                                                 *)
(***************************************************************************)
\* The archive loadmat returns: each split holds a 2-D feature matrix with two
\* features per sample and an m x 1 label column (n # m is a malformed archive).
Labels(m) == {Array(<<m, 1>>, data) : data \in [1 .. m -> LabelValues]}

Archives ==
    [train : {[X |-> Features(n, 2, 0), y |-> y] :
                 n \in 1 .. MaxRows, y \in UNION {Labels(m) : m \in 1 .. MaxRows}},
     test : {[X |-> Features(n, 2, 100), y |-> y] :
                 n \in 1 .. MaxTestRows, y \in UNION {Labels(m) : m \in 1 .. MaxTestRows}},
     mapping : MappingTables]

\* np.min(a)
NpMin(a) == CHOOSE x \in Values(a) : \A z \in Values(a) : x <= z

\* lower_bound = min(np.min(train[1]), np.min(test[1]))
LowerBound(a) == Min(NpMin(a.train.y), NpMin(a.test.y))

\* The encoder Dataset.__init__ derives from label_order.  No label is below
\* lower_bound, so old - lower_bound cannot wrap whatever the integer width.
MakeEncoder(a, order) ==
    IF order = "shift" THEN ShiftEncoder(LowerBound(a))
    ELSE IF order = "reorder" THEN LabelEncoderFit(a.train.y)
    ELSE NoEncoder

\* The decoder Dataset.__init__ derives from label_order.
MakeDecoder(a, order) ==
    IF order = "shift" THEN ShiftDecoder(LowerBound(a))
    ELSE IF order = "reorder" THEN LabelEncoderFit(a.train.y)
    ELSE NoEncoder

\* The attributes Dataset.__init__ assigns, and those Dataset.from_dict assigns.
InitAttrs ==
    {"_encoder", "_decoder", "_train", "_sampled_train", "_train_size",
     "_test", "_sampled_test", "_test_size", "_mapping"}

FromDictAttrs == {"_train", "_test", "_mapping"}

DatasetInit ==
    /\ pc = "start"
    /\ attrs = {}
    /\ archive \in Archives
    /\ label_order \in {"None", "shift", "reorder"}
    /\ _encoder = NoEncoder
    /\ _decoder = NoEncoder
    /\ _train = NoSubset
    /\ _sampled_train = NoSubset
    /\ _train_size = 0
    /\ _test = NoSubset
    /\ _sampled_test = NoSubset
    /\ _test_size = 0
    /\ _mapping = "unset"
    /\ ret = "unset"
    /\ spc = "unused"
    /\ SubsetUnset

\* Dataset(filename, folder, label_order)
Construct ==
    /\ pc = "start"
    /\ LET enc == MakeEncoder(archive, label_order)
           dec == MakeDecoder(archive, label_order)
           tr == SubsetInit(archive.train.X, archive.train.y, <<-1>>, enc)
           te == SubsetInit(archive.test.X, archive.test.y, <<-1>>, enc)
       IN  IF tr.err # "none" \/ te.err # "none"
           THEN /\ pc' = "failed"
                /\ ret' = IF tr.err # "none" THEN tr.err ELSE te.err
                /\ UNCHANGED <<attrs, _encoder, _decoder, _train, _sampled_train, _train_size,
                               _test, _sampled_test, _test_size, _mapping>>
           ELSE /\ pc' = "ready"
                /\ attrs' = InitAttrs
                /\ ret' = "Dataset"
                /\ _encoder' = enc
                /\ _decoder' = dec
                /\ _train' = tr
                /\ _sampled_train' = tr
                /\ _train_size' = SubsetLen(tr)
                /\ _test' = te
                /\ _sampled_test' = te
                /\ _test_size' = SubsetLen(te)
                /\ _mapping' = archive.mapping
    /\ op' = "Dataset"
    /\ UNCHANGED <<archive, label_order, size>>
    /\ UNCHANGED subsetVars

\* Dataset.__dict__()
DatasetToDict == [train |-> _train, test |-> _test, mapping |-> _mapping]

\* instance = Dataset.from_dict(dataset.__dict__()): the new instance has the
\* attributes _train, _test and _mapping and no other; the model follows it.
DatasetFromDict ==
    /\ pc \in {"ready", "from_dict"}
    /\ LET d == DatasetToDict
       IN  /\ _train' = d.train
           /\ _test' = d.test
           /\ _mapping' = d.mapping
    /\ attrs' = FromDictAttrs
    /\ pc' = "from_dict"
    /\ _encoder' = NoEncoder
    /\ _decoder' = NoEncoder
    /\ _sampled_train' = NoSubset
    /\ _train_size' = 0
    /\ _sampled_test' = NoSubset
    /\ _test_size' = 0
    /\ ret' = "Dataset"
    /\ op' = "from_dict"
    /\ UNCHANGED <<archive, label_order, size>>
    /\ UNCHANGED subsetVars

\* dataset.sample_train(size)
sample_train(sz) ==
    /\ pc \in {"ready", "from_dict"}
    /\ \E r \in sampled(_train, sz) :
          IF r.err = "none"
          THEN /\ _sampled_train' = r
               /\ _train_size' = SubsetLen(r)
               /\ attrs' = attrs \cup {"_sampled_train", "_train_size"}
               /\ ret' = "self"
          ELSE /\ ret' = r.err
               /\ UNCHANGED <<attrs, _sampled_train, _train_size>>
    /\ op' = "sample_train"
    /\ size' = sz
    /\ UNCHANGED <<pc, archive, label_order, _encoder, _decoder, _train, _test,
                   _sampled_test, _test_size, _mapping>>
    /\ UNCHANGED subsetVars

\* dataset.sample_test(size)
sample_test(sz) ==
    /\ pc \in {"ready", "from_dict"}
    /\ \E r \in sampled(_test, sz) :
          IF r.err = "none"
          THEN /\ _sampled_test' = r
               /\ _test_size' = SubsetLen(r)
               /\ attrs' = attrs \cup {"_sampled_test", "_test_size"}
               /\ ret' = "self"
          ELSE /\ ret' = r.err
               /\ UNCHANGED <<attrs, _sampled_test, _test_size>>
    /\ op' = "sample_test"
    /\ size' = sz
    /\ UNCHANGED <<pc, archive, label_order, _encoder, _decoder, _train, _test,
                   _sampled_train, _train_size, _mapping>>
    /\ UNCHANGED subsetVars

\* Reading self.<name>: the value, or AttributeError when the instance has no
\* such attribute.
GetAttr(name, value) ==
    [err |-> IF name \in attrs THEN "none" ELSE "AttributeError", val |-> value]

\* The accessors.
train == GetAttr("_sampled_train", _sampled_train)

test == GetAttr("_sampled_test", _sampled_test)

train_size == GetAttr("_train_size", _train_size)

test_size == GetAttr("_test_size", _test_size)

encoder == GetAttr("_encoder", _encoder)

decoder == GetAttr("_decoder", _decoder)

mapping == GetAttr("_mapping", _mapping)

Init == DatasetInit

Next ==
    \/ Construct
    \/ DatasetFromDict
    \/ \E sz \in Sizes : sample_train(sz)
    \/ \E sz \in Sizes : sample_test(sz)

Spec == Init /\ [][Next]_vars

(***************************************************************************)
(* Vocabulary of the properties, stated without the operators above.       *)
(***************************************************************************)
\* floor(min(size, 1.0) * n) for a fraction, min(size, n) for a count.
ExpectedCount(sz, n) ==
    IF sz.kind = "int"
    THEN IF sz.num < n THEN sz.num ELSE n
    ELSE LET f == IF sz.num > sz.den THEN sz.den ELSE sz.num
         IN  CHOOSE k \in 0 .. n : k * sz.den <= f * n /\ (k + 1) * sz.den > f * n

\* child's rows are rows of parent, with their labels, at pairwise distinct indices.
TakenAtDistinctRows(child, parent) ==
    /\ PyLen(child.X) = PyLen(child.y)
    /\ PyLen(child.X) <= PyLen(parent.X)
    /\ \E index \in [1 .. PyLen(child.X) -> 0 .. PyLen(parent.X) - 1] :
          /\ \A i, j \in DOMAIN index : i # j => index[i] # index[j]
          /\ \A i \in DOMAIN index :
                /\ Row(child.X, i - 1) = Row(parent.X, index[i])
                /\ child.y.data[i] = parent.y.data[index[i] + 1]

\* encoder applied to one label, the way Subset.__init__ applies it.
Apply(f, l) == ApplyEncoder(f, Array(<<1>>, <<l>>))

Mismatch == PyLen(args.X) # PyLen(FlatLabels(args.y))

\* The features can be reshaped to (len(X), *feature_shape).
CanReshape(X, fs) ==
    LET unknown == {i \in DOMAIN fs : fs[i] = -1}
        others == Prod([i \in DOMAIN fs |-> IF fs[i] = -1 THEN 1 ELSE fs[i]])
    IN  IF unknown = {} THEN PyLen(X) * others = Len(X.data)
        ELSE /\ Cardinality(unknown) = 1
             /\ PyLen(X) # 0
             /\ others # 0
             /\ RowSize(X) % others = 0

\* Every label lies in the encoder's domain.
CanEncode(f, y) ==
    f.kind = "LabelEncoder" =>
        \A i \in DOMAIN y.data : \E j \in DOMAIN f.classes : f.classes[j] = y.data[i]

(***************************************************************************)
(* Properties of Subset (checked under SubsetSpec)                         *)
(***************************************************************************)
\* C1 as stated: constructing a Subset with len(X) # len(y) (labels flattened)
\* always fails with the assertion error.
C1_AlwaysAssertionError ==
    (spc = "built" /\ Mismatch) => subset.err = "AssertionError"

\* C1, amended: constructing a Subset with len(X) # len(y) always fails and no
\* Subset is produced; the failure is the assertion error exactly when the
\* feature reshape and the label encoding succeed, and otherwise the ValueError
\* of the reshape or of the encoder, which are raised before the length check.
C1_MismatchFails ==
    (spc = "built" /\ Mismatch) =>
        /\ subset.err \in {"AssertionError", "ValueError"}
        /\ subset.X = NoArray
        /\ subset.y = NoArray
        /\ subset.err = "AssertionError" <=>
              (CanReshape(args.X, args.feature_shape)
               /\ CanEncode(args.encoder, args.y))

C1_Witness ==
    /\ spc = "built"
    /\ Mismatch
    /\ subset.err = "AssertionError"
    /\ PyLen(args.X) = 2
    /\ args.encoder.kind = "LabelEncoder"

\* C3: from_dict(s.__dict__()) has the feature and label arrays of s (values,
\* order and shape), and from_dict(d).__dict__() has the X and y of d for every
\* d = {X, y} of equal length.
C3_RoundTrip ==
    /\ op = "from_dict_of_dict" =>
          /\ result.err = "none"
          /\ result.X = subset.X
          /\ result.y = subset.y
    /\ (op = "from_dict" /\ ~Mismatch) =>
          /\ result.err = "none"
          /\ result.X = args.X
          /\ result.y.data = args.y.data

\* C4: sampled(size) for a fraction size > 0 returns a Subset of exactly
\* floor(min(size, 1.0) * n) rows, at most n, taken at pairwise distinct rows.
C4_FractionSampled ==
    (op = "sampled" /\ size.kind = "float" /\ size.num > 0) =>
        /\ result.err = "none"
        /\ PyLen(result.X) = ExpectedCount(size, SubsetLen(subset))
        /\ PyLen(result.X) <= SubsetLen(subset)
        /\ TakenAtDistinctRows(result, subset)

\* C5: sampled(size) for an integer count size returns a Subset of exactly
\* min(size, n) rows taken at pairwise distinct rows; size >= n gives n rows.
C5_CountSampled ==
    (op = "sampled" /\ size.kind = "int") =>
        /\ result.err = "none"
        /\ PyLen(result.X) = ExpectedCount(size, SubsetLen(subset))
        /\ size.num >= SubsetLen(subset) => PyLen(result.X) = SubsetLen(subset)
        /\ TakenAtDistinctRows(result, subset)

(***************************************************************************)
(* Properties of Dataset (checked under Spec)                              *)
(***************************************************************************)
\* A Dataset instance exists: built by __init__, or by from_dict.
Exists == pc \in {"ready", "from_dict"}

SameRows(view) == view.err = "none" /\ view.val.X.shape[1] = view.val.y.shape[1]

\* C2: in every state of a Dataset the train accessor returns a Subset with as
\* many feature rows as labels, and so does the test accessor.
C2_EqualLengths == Exists => (SameRows(train) /\ SameRows(test))

\* What holds of C2: the same, for a Dataset built by __init__.
C2_BuiltByInit == pc = "ready" => (SameRows(train) /\ SameRows(test))

RawLabels == Values(archive.train.y) \cup Values(archive.test.y)

\* C6: under "shift" the encoder subtracts the smallest label of the two splits,
\* the decoder adds it back, decoder(encoder(label)) = label for every label of
\* either split, and the stored labels are the raw ones minus that minimum.
C6_ShiftRoundTrip ==
    (pc = "ready" /\ label_order = "shift") =>
        LET lb == CHOOSE x \in RawLabels : \A z \in RawLabels : x <= z
        IN  /\ encoder.err = "none"
            /\ decoder.err = "none"
            /\ \A l \in RawLabels :
                  /\ Apply(encoder.val, l).err = "none"
                  /\ Apply(encoder.val, l).val.data[1] = l - lb
                  /\ Apply(decoder.val, l - lb).err = "none"
                  /\ Apply(decoder.val, l - lb).val.data[1] = l
            /\ \A i \in DOMAIN _train.y.data :
                  /\ _train.y.data[i] = archive.train.y.data[i] - lb
                  /\ Apply(decoder.val, _train.y.data[i]).val.data[1]
                        = archive.train.y.data[i]
            /\ \A i \in DOMAIN _test.y.data :
                  /\ _test.y.data[i] = archive.test.y.data[i] - lb
                  /\ Apply(decoder.val, _test.y.data[i]).val.data[1]
                        = archive.test.y.data[i]

C6_Witness ==
    /\ pc = "ready"
    /\ label_order = "shift"
    /\ _encoder.lower_bound = 3
    /\ archive.train.y.data = <<5, 3>>
    /\ _train.y.data = <<2, 0>>

\* C7: under "reorder" decoder(encoder(label)) = label for every label of the
\* training split, and encoding a label absent from the training split fails
\* (a label only in the testing split makes the construction fail).
C7_ReorderRoundTrip ==
    /\ (pc = "ready" /\ label_order = "reorder") =>
          /\ encoder.err = "none"
          /\ decoder.err = "none"
          /\ \A l \in Values(archive.train.y) :
                /\ Apply(encoder.val, l).err = "none"
                /\ Apply(decoder.val, Apply(encoder.val, l).val.data[1]).err = "none"
                /\ Apply(decoder.val, Apply(encoder.val, l).val.data[1]).val.data[1] = l
          /\ \A l \in LabelValues \ Values(archive.train.y) :
                Apply(encoder.val, l).err # "none"
    /\ (pc # "start" /\ label_order = "reorder"
        /\ ~(Values(archive.test.y) \subseteq Values(archive.train.y))) =>
          pc = "failed"

\* The view an accessor returns is a sample of the full split, and the size
\* accessor returns its length.
IsViewOf(view, viewSize, full) ==
    /\ view.err = "none"
    /\ viewSize.err = "none"
    /\ TakenAtDistinctRows(view.val, full)
    /\ viewSize.val = view.val.X.shape[1]

ViewsOfFullSplits ==
    /\ IsViewOf(train, train_size, _train)
    /\ IsViewOf(test, test_size, _test)
    /\ _train.X.data = archive.train.X.data
    /\ _test.X.data = archive.test.X.data

\* C8: the train view consists of rows of the full training split, paired with
\* their encoded labels, at pairwise distinct indices, and train_size is the
\* view's length; likewise for test.  After a sample_train(size) that returns,
\* train_size is the count that size and the full split's length determine.
C8_ViewInvariant == Exists => ViewsOfFullSplits

C8_SizeFromFullSplit ==
    /\ (op' = "sample_train" /\ ret' = "self") =>
          /\ train_size'.err = "none"
          /\ train_size'.val = ExpectedCount(size', _train.X.shape[1])
    /\ (op' = "sample_test" /\ ret' = "self") =>
          /\ test_size'.err = "none"
          /\ test_size'.val = ExpectedCount(size', _test.X.shape[1])

C8_SampledViews == [](C8_ViewInvariant) /\ [][C8_SizeFromFullSplit]_vars

\* What holds of C8: the same, for a Dataset built by __init__, whose full
\* splits hold the labels encoded once.
C8_BuiltByInit ==
    /\ [](pc = "ready" =>
            /\ ViewsOfFullSplits
            /\ \A i \in DOMAIN _train.y.data :
                  _train.y.data[i]
                     = Apply(_encoder, archive.train.y.data[i]).val.data[1]
            /\ \A i \in DOMAIN _test.y.data :
                  _test.y.data[i]
                     = Apply(_encoder, archive.test.y.data[i]).val.data[1])
    /\ [][C8_SizeFromFullSplit]_vars

\* C9: sample_train changes only the train view and train_size and returns the
\* Dataset itself; sample_test changes only the test view and test_size; right
\* after construction the views are the full Subsets and the sizes their lengths.
ViewsAreFullSplits ==
    /\ train.err = "none" /\ train.val = _train
    /\ test.err = "none" /\ test.val = _test
    /\ train_size.err = "none" /\ train_size.val = _train.X.shape[1]
    /\ test_size.err = "none" /\ test_size.val = _test.X.shape[1]

C9_AfterConstruction ==
    (Exists /\ op \in {"Dataset", "from_dict"}) => ViewsAreFullSplits

C9_SampleFrame ==
    /\ op' = "sample_train" =>
          /\ UNCHANGED <<_sampled_test, _test_size, _train, _test, _mapping,
                         _encoder, _decoder, pc>>
          /\ attrs' \ {"_sampled_train", "_train_size"}
                = attrs \ {"_sampled_train", "_train_size"}
          /\ (_sampled_train' # _sampled_train \/ _train_size' # _train_size)
                => ret' = "self"
    /\ op' = "sample_test" =>
          /\ UNCHANGED <<_sampled_train, _train_size, _train, _test, _mapping,
                         _encoder, _decoder, pc>>
          /\ attrs' \ {"_sampled_test", "_test_size"}
                = attrs \ {"_sampled_test", "_test_size"}
          /\ (_sampled_test' # _sampled_test \/ _test_size' # _test_size)
                => ret' = "self"

C9_Frame == [](C9_AfterConstruction) /\ [][C9_SampleFrame]_vars

\* What holds of C9: the frame of the two sampling calls on every Dataset, and
\* the views being the full Subsets right after __init__.
C9_BuiltByInit ==
    /\ []((pc = "ready" /\ op = "Dataset") => ViewsAreFullSplits)
    /\ [][C9_SampleFrame]_vars

\* C10: with the default label_order, train.X and test.X have the same size on
\* their second axis, and train.y and test.y each have a second axis of the
\* same size.
C10_SecondAxis ==
    (pc = "ready" /\ label_order = "None") =>
        /\ train.val.X.shape[2] = test.val.X.shape[2]
        /\ Len(train.val.y.shape) >= 2
        /\ Len(test.val.y.shape) >= 2
        /\ train.val.y.shape[2] = test.val.y.shape[2]
====
